---------------------------- MODULE Spec2Model ----------------------------
(***************************************************************************)
(* A model of the e-archive backend (src/src/index.ts, the server that    *)
(* starts at line 104): the in-memory document collection, the uploads    *)
(* directory, and one action per HTTP handler.  Express runs each handler *)
(* to completion on the event loop; the only asynchronous steps are the   *)
(* multer disk write of an upload and the fs.unlink of a delete.          *)
(*                                                                         *)
(* Spec is the whole server.  SpecRecords, SpecStatus, SpecCreate,        *)
(* SpecQuery, SpecStats, SpecActivity and SpecLookup are the same actions *)
(* under fewer requests or other inputs, each with the routes one group   *)
(* of properties is about.                                                *)
(*                                                                         *)
(* JavaScript values:                                                      *)
(*   - a string that the code inspects character by character (title,     *)
(*     description, tags, q) is a sequence of one-character strings;      *)
(*     UndefinedText stands for undefined in such a place;                *)
(*   - a string that the code only compares with === is a TLA+ string;    *)
(*     Undefined stands for undefined in such a place;                    *)
(*   - `DOC-${t}` is <<"DOC", t>>, `${t}-${name}` is <<t, name>> and      *)
(*     `/uploads/${f}` is <<"/uploads/", f>> (each is injective, as the   *)
(*     template strings are: Date.now() prints digits only);              *)
(*   - an ISO timestamp is its millisecond value (toISOString and         *)
(*     new Date(iso) are inverse on it); NaN is the time of Invalid Date. *)
(***************************************************************************)
EXTENDS Integers, Sequences, FiniteSets, Bags, TLC

\* ---------------------------------------------------------------- bounds
MaxClock == 1      \* Date.now() ranges over 0..MaxClock
MaxCreates == 2    \* uploads with a file part over a run
MaxPuts == 2       \* successful PUTs carried by the documents of the repository

\* ------------------------------------------------------------ JS values
Undefined == "undefined"
UndefinedText == << "undefined" >>
NaN == -1

MockUser == "Ahmed Mohamud"

DocId(t) == << "DOC", t >>
StoredName(t, originalname) == << t, originalname >>
UploadsPath(filename) == << "/uploads/", filename >>

\* ------------------------------------------------------------- inputs
\* The files a client uploads: multer's originalname, size and mimetype.
Files ==
  { [originalname |-> "a.pdf", size |-> 1000, mimetype |-> "application/pdf"],
    [originalname |-> "b.txt", size |-> 2000, mimetype |-> "text/plain"] }

\* The text fields of an upload's multipart body (a field may be absent).
FullBody ==
  [title |-> << "A", "b" >>, description |-> << "c", "d" >>,
   category |-> "finance", department |-> "hr",
   confidentiality |-> "public", tags |-> << "x", ",", " ", "Y" >>]

Bodies == { FullBody }

\* Bodies for the query engine: a second category, and a body with no text
\* fields at all (express leaves the absent fields undefined).
QueryBodies ==
  { FullBody,
    [title |-> << "c" >>, description |-> << "Y", "b" >>,
     category |-> "legal", department |-> "hr"],
    [category |-> "legal"] }

\* The JSON bodies of PUT /api/documents/:id.
Payloads ==
  { [title |-> << "C", "d" >>, category |-> "legal"],
    [version |-> 7, history |-> << >>, status |-> "archived",
     id |-> DocId(0), fileName |-> StoredName(0, "x.bin"),
     originalName |-> "x.bin", filePath |-> UploadsPath(StoredName(0, "x.bin")),
     fileSize |-> 5, fileType |-> "application/x", uploadDate |-> 5] }

\* The values of `status` in the JSON body of PATCH .../status.
StatusInputs == { "approved", "rejected", "pending", "archived", Undefined }

Ids == { DocId(t) : t \in 0..MaxClock }

VARIABLES
  documents,   \* let documents: any[]
  disk,        \* the file names present in uploadsDir
  inflight,    \* uploads multer is writing, the handler not yet run (a bag)
  unlinks,     \* fs.unlink calls issued and not yet completed (a bag of names)
  now,         \* Date.now()
  res,         \* the last response sent: the HTTP status and what was sent
  ghost,       \* history variable, aligned with documents: the creation
               \* ordinal of each document and the PUTs applied to it
  created      \* history variable: the documents POST has pushed so far

vars == << documents, disk, inflight, unlinks, now, res, ghost, created >>

\* ------------------------------------------------------------- helpers
Field(body, k, undef) == IF k \in DOMAIN body THEN body[k] ELSE undef

\* Mutant of FindIndex: an id that is not found yields the last index.
FindIndex_OrLast(docs, id) ==
  IF \E i \in 1..Len(docs) : docs[i].id = id
  THEN CHOOSE i \in 1..Len(docs) :
         /\ docs[i].id = id
         /\ \A j \in 1..(i - 1) : docs[j].id # id
  ELSE Len(docs)

\* documents.findIndex(doc => doc.id === id): the first match, 0 for -1.
FindIndex(docs, id) ==
  IF \E i \in 1..Len(docs) : docs[i].id = id
  THEN CHOOSE i \in 1..Len(docs) :
         /\ docs[i].id = id
         /\ \A j \in 1..(i - 1) : docs[j].id # id
  ELSE 0

\* arr.splice(i, 1)
Splice(s, i) == [k \in 1..(Len(s) - 1) |-> IF k < i THEN s[k] ELSE s[k + 1]]

\* { ...a, ...b }
Spread(a, b) ==
  [k \in (DOMAIN a) \cup (DOMAIN b) |-> IF k \in DOMAIN b THEN b[k] ELSE a[k]]


\* ------------------------------------------------------------- strings
UpperCase == << "A", "B", "C", "D", "X", "Y" >>
LowerCase == << "a", "b", "c", "d", "x", "y" >>

\* String.prototype.toLowerCase, character by character.
ToLowerChar(c) ==
  IF \E i \in 1..Len(UpperCase) : UpperCase[i] = c
  THEN LowerCase[CHOOSE i \in 1..Len(UpperCase) : UpperCase[i] = c]
  ELSE c

ToLowerCase(s) == [i \in 1..Len(s) |-> ToLowerChar(s[i])]

\* String.prototype.includes
Includes(s, t) ==
  \E i \in 0..(Len(s) - Len(t)) : SubSeq(s, i + 1, i + Len(t)) = t

\* String.prototype.trim (the only white space of the inputs is " ").
RECURSIVE Trim(_)
Trim(s) ==
  IF s = << >> THEN s
  ELSE IF Head(s) = " " THEN Trim(Tail(s))
  ELSE IF s[Len(s)] = " " THEN Trim(SubSeq(s, 1, Len(s) - 1))
  ELSE s

\* String.prototype.split(',')
RECURSIVE Split(_)
Split(s) ==
  IF \E i \in 1..Len(s) : s[i] = ","
  THEN LET i == CHOOSE k \in 1..Len(s) :
                  s[k] = "," /\ \A j \in 1..(k - 1) : s[j] # ","
       IN << SubSeq(s, 1, i - 1) >> \o Split(SubSeq(s, i + 1, Len(s)))
  ELSE << s >>

\* tags ? tags.split(',').map(tag => tag.trim()) : []
ParseTags(tags) ==
  IF tags = UndefinedText \/ tags = << >> THEN << >>
  ELSE LET parts == Split(tags) IN [i \in 1..Len(parts) |-> Trim(parts[i])]

\* ------------------------------------------------------- query engine
\* if (x) for a query parameter: present and not the empty string.
Truthy(v) == v # Undefined /\ v # ""
TruthyText(v) == v # UndefinedText /\ v # << >>

\* The predicate of the q filter on one document: "true", "false", or
\* "throw" where toLowerCase is called on undefined (a TypeError).
QMatches(doc, searchTerm) ==
  IF doc.title = UndefinedText THEN "throw"
  ELSE IF Includes(ToLowerCase(doc.title), searchTerm) THEN "true"
  ELSE IF doc.description = UndefinedText THEN "throw"
  ELSE IF Includes(ToLowerCase(doc.description), searchTerm) THEN "true"
  ELSE IF \E i \in 1..Len(doc.tags) :
            Includes(ToLowerCase(doc.tags[i]), searchTerm) THEN "true"
  ELSE "false"

\* new Date(a) >= new Date(b): false when either is Invalid Date.
DateGE(a, b) == a # NaN /\ b # NaN /\ a >= b

\* The chain of filters of GET /api/documents, in the order of the code, and
\* the response: the filtered documents, or express's 500 when the q filter
\* throws.  A date parameter is its time value (NaN if it does not parse).

FilterDocuments(docs, query) ==
  LET q == Field(query, "q", UndefinedText)
      category == Field(query, "category", Undefined)
      department == Field(query, "department", Undefined)
      status == Field(query, "status", Undefined)
      confidentiality == Field(query, "confidentiality", Undefined)
      searchTerm == ToLowerCase(q)
      f1 == IF TruthyText(q)
            THEN SelectSeq(docs, LAMBDA d : QMatches(d, searchTerm) = "true")
            ELSE docs
      f2 == IF Truthy(category)
            THEN SelectSeq(f1, LAMBDA d : d.category = category) ELSE f1
      f3 == IF Truthy(department)
            THEN SelectSeq(f2, LAMBDA d : d.department = department) ELSE f2
      f4 == IF Truthy(status)
            THEN SelectSeq(f3, LAMBDA d : d.status = status) ELSE f3
      f5 == IF Truthy(confidentiality)
            THEN SelectSeq(f4, LAMBDA d : d.confidentiality = confidentiality)
            ELSE f4
      f6 == IF "dateFrom" \in DOMAIN query
            THEN SelectSeq(f5, LAMBDA d : DateGE(d.uploadDate, query.dateFrom))
            ELSE f5
      f7 == IF "dateTo" \in DOMAIN query
            THEN SelectSeq(f6, LAMBDA d : DateGE(query.dateTo, d.uploadDate))
            ELSE f6
  IN IF TruthyText(q) /\ \E i \in 1..Len(docs) : QMatches(docs[i], searchTerm) = "throw"
     THEN [status |-> 500]
     ELSE [status |-> 200, body |-> f7]


\* --------------------------------------------------------- aggregator
\* res.json(value): a response that carries the JSON value itself.
SendJson(status, json) == [status |-> status, body |-> "json", json |-> json]

\* documents.reduce((acc, doc) => acc + doc.fileSize, 0)
RECURSIVE SumFileSize(_)
SumFileSize(docs) ==
  IF docs = << >> THEN 0 ELSE Head(docs).fileSize + SumFileSize(Tail(docs))

\* `${(bytes / 1024 / 1024).toFixed(2)} MB`: the megabytes rounded to two
\* decimals, kept as the number of hundredths, and the unit.
StorageUsed(bytes) ==
  << (2 * 100 * bytes + 1024 * 1024) \div (2 * 1024 * 1024), " MB" >>

\* Mutant of Stats: every document that is not approved counts as pending.
Stats_NotApproved(docs) ==
  [ totalDocuments |-> Len(docs),
    pendingApprovals |-> Len(SelectSeq(docs, LAMBDA d : d.status # "approved")),
    storageUsed |-> StorageUsed(SumFileSize(docs)),
    activeUsers |-> 5 ]

\* The object GET /api/stats sends.
Stats(docs) ==
  [ totalDocuments   |-> Len(docs),
    pendingApprovals |-> Len(SelectSeq(docs, LAMBDA d : d.status = "pending")),
    storageUsed      |-> StorageUsed(SumFileSize(docs)),
    activeUsers      |-> 5 ]

\* documents.flatMap(doc => doc.history.map(entry =>
\*   ({ ...entry, documentId: doc.id, documentTitle: doc.title })))
RECURSIVE AllActivities(_)
AllActivities(docs) ==
  IF docs = << >> THEN << >>
  ELSE LET doc == Head(docs) IN
       [ k \in 1..Len(doc.history) |->
           Spread(doc.history[k],
                  [documentId |-> doc.id, documentTitle |-> doc.title]) ]
       \o AllActivities(Tail(docs))

\* new Date(entry.date).getTime(): NaN for an entry with no date.
GetTime(entry) == IF "date" \in DOMAIN entry THEN entry.date ELSE NaN

\* The comparator of the sort, as Array.prototype.sort reads it: a NaN
\* result counts as +0.
CompareFn(a, b) ==
  IF GetTime(a) = NaN \/ GetTime(b) = NaN THEN 0 ELSE GetTime(b) - GetTime(a)

\* The comparator is a consistent comparator for the elements of list (with
\* numbers and NaN, it is one when comparing equal is transitive).
Consistent(list) ==
  \A i, j, k \in 1..Len(list) :
    (CompareFn(list[i], list[j]) = 0 /\ CompareFn(list[j], list[k]) = 0)
      => CompareFn(list[i], list[k]) = 0

\* sorted with e put behind every element that does not sort after it.
RECURSIVE Insert(_, _)
Insert(sorted, e) ==
  IF sorted = << >> THEN << e >>
  ELSE IF CompareFn(Head(sorted), e) <= 0
       THEN << Head(sorted) >> \o Insert(Tail(sorted), e)
       ELSE << e >> \o sorted

\* The stable sort of list under CompareFn.
RECURSIVE StableSort(_)
StableSort(list) ==
  IF list = << >> THEN << >>
  ELSE Insert(StableSort(SubSeq(list, 1, Len(list) - 1)), list[Len(list)])

RECURSIVE Orderings(_)
Orderings(list) ==
  IF list = << >> THEN { << >> }
  ELSE UNION { { << list[i] >> \o p : p \in Orderings(Splice(list, i)) } :
               i \in 1..Len(list) }

\* allActivities.sort(compareFn): the stable sort where the comparator is
\* consistent, and an order the implementation picks where it is not.
SortOutcomes(list) ==
  IF Consistent(list) THEN { StableSort(list) } ELSE Orderings(list)

\* arr.slice(0, n)
Slice(list, n) == SubSeq(list, 1, IF Len(list) < n THEN Len(list) ELSE n)

\* ------------------------------------------------------------ handlers
\* res.status(status).send(body) / .json(...): the body is the text sent,
\* "json" for a JSON body, "file" for a download, "" for none.
Send(status, body) == [status |-> status, body |-> body]

NotFound == Send(404, "Document not found.")

\* Mutant of Push: unshift instead of push.
Push_Front(docs, d) == << d >> \o docs

\* documents.push(d)
Push(docs, d) == Append(docs, d)

\* Mutant of NewDocument: the record starts approved, at version 0, with
\* no history.
NewDocument_NoHistory(file, body, t) ==
  [ id |-> DocId(t),
    title |-> Field(body, "title", UndefinedText),
    description |-> Field(body, "description", UndefinedText),
    category |-> Field(body, "category", Undefined),
    department |-> Field(body, "department", Undefined),
    confidentiality |-> Field(body, "confidentiality", Undefined),
    tags |-> << >>,
    fileName |-> file.filename, originalName |-> file.originalname,
    filePath |-> UploadsPath(file.filename),
    fileSize |-> file.size, fileType |-> file.mimetype,
    uploadDate |-> t, status |-> "approved", version |-> 0,
    uploadedBy |-> MockUser, history |-> << >> ]

\* The record built by POST /api/documents.
NewDocument(file, body, t) ==
  [ id              |-> DocId(t),
    title           |-> Field(body, "title", UndefinedText),
    description     |-> Field(body, "description", UndefinedText),
    category        |-> Field(body, "category", Undefined),
    department      |-> Field(body, "department", Undefined),
    confidentiality |-> Field(body, "confidentiality", Undefined),
    tags            |-> ParseTags(Field(body, "tags", UndefinedText)),
    fileName        |-> file.filename,
    originalName    |-> file.originalname,
    filePath        |-> UploadsPath(file.filename),
    fileSize        |-> file.size,
    fileType        |-> file.mimetype,
    uploadDate      |-> t,
    status          |-> "pending",
    version         |-> 1,
    uploadedBy      |-> MockUser,
    history         |-> << [user |-> MockUser, changes |-> "Initial upload"] >> ]

\* Mutant of UpdatedDocument: the request body is spread last, so its
\* version and history win.
UpdatedDocument_BodyLast(originalDocument, body, t) ==
  LET newVersion == originalDocument.version + 1 IN
  Spread([ originalDocument EXCEPT
             !.version = newVersion,
             !.history = << [version |-> newVersion, date |-> t,
                             user |-> MockUser, changes |-> "Metadata updated"] >>
                         \o originalDocument.history ],
         body)

\* Mutant of UpdatedDocument: the new entry replaces the history.
UpdatedDocument_Replaced(originalDocument, body, t) ==
  LET newVersion == originalDocument.version + 1 IN
  [ Spread(originalDocument, body) EXCEPT
      !.version = newVersion,
      !.history = << [version |-> newVersion, date |-> t,
                      user |-> MockUser, changes |-> "Metadata updated"] >> ]

\* Mutant of UpdatedDocument: the new version is counted from the merged
\* record, so from a version the request body carries.
UpdatedDocument_BodyVersion(originalDocument, body, t) ==
  LET newVersion == Spread(originalDocument, body).version + 1 IN
  [ Spread(originalDocument, body) EXCEPT
      !.version = newVersion,
      !.history = << [version |-> newVersion, date |-> t,
                      user |-> MockUser, changes |-> "Metadata updated"] >>
                  \o originalDocument.history ]

\* The record PUT /api/documents/:id stores.
UpdatedDocument(originalDocument, body, t) ==
  LET newVersion == originalDocument.version + 1 IN
  [ Spread(originalDocument, body) EXCEPT
      !.version = newVersion,
      !.history = << [version |-> newVersion, date |-> t,
                      user |-> MockUser, changes |-> "Metadata updated"] >>
                  \o originalDocument.history ]

\* Mutant of ValidStatus: 'pending' is accepted.
ValidStatus_WithPending(status) == status \in {"approved", "rejected", "pending"}

\* ['approved', 'rejected'].includes(status)
ValidStatus(status) == status \in {"approved", "rejected"}

\* Mutant of WithStatus: the status change is versioned and recorded like
\* a metadata update.
WithStatus_Versioned(doc, status) ==
  [ doc EXCEPT !.status = status, !.version = @ + 1,
               !.history = << [version |-> doc.version + 1, user |-> MockUser,
                               changes |-> "Status updated"] >> \o @ ]

\* Mutant of WithStatus: every status update puts the document back to
\* pending.
WithStatus_Reset(doc, status) == [doc EXCEPT !.status = "pending"]

\* documents[documentIndex].status = status
WithStatus(doc, status) == [doc EXCEPT !.status = status]

\* PUTs carried by the documents of the repository (bounds the model).
RECURSIVE SumPuts(_)
SumPuts(g) == IF g = << >> THEN 0 ELSE Head(g).puts + SumPuts(Tail(g))

\* The clock advances between any two steps, or not at all.
Tick ==
  /\ now < MaxClock
  /\ now' = now + 1
  /\ UNCHANGED << documents, disk, inflight, unlinks, res, ghost, created >>

\* upload.single('file') with a file part: multer names the file and starts
\* to write it into uploadsDir; the route handler runs when the write ends.
UploadStart(f, body) ==
  /\ created + BagCardinality(inflight) < MaxCreates
  /\ LET file == [filename |-> StoredName(now, f.originalname),
                  originalname |-> f.originalname,
                  size |-> f.size, mimetype |-> f.mimetype]
     IN /\ inflight' = inflight (+) SetToBag({[file |-> file, body |-> body]})
        /\ disk' = disk \cup {file.filename}
  /\ UNCHANGED << documents, unlinks, now, res, ghost, created >>

\* POST /api/documents once multer has stored the file.
PostDocument(u) ==
  /\ BagIn(u, inflight)
  /\ inflight' = inflight (-) SetToBag({u})
  /\ documents' = Push(documents, NewDocument(u.file, u.body, now))
  /\ created' = created + 1
  /\ ghost' = Push(ghost, [ord |-> created + 1, puts |-> 0])
  /\ res' = Send(201, "json")
  /\ UNCHANGED << disk, unlinks, now >>

\* POST /api/documents without a file part: req.file is undefined.
PostNoFile ==
  /\ res' = Send(400, "No file uploaded.")
  /\ UNCHANGED << documents, disk, inflight, unlinks, now, ghost, created >>

\* GET /api/documents
ListDocuments(query) ==
  /\ res' = LET r == FilterDocuments(documents, query) IN
            IF r.status = 200 THEN Send(200, "json") ELSE Send(500, "TypeError")
  /\ UNCHANGED << documents, disk, inflight, unlinks, now, ghost, created >>

\* GET /api/documents/:id
GetDocument(id) ==
  /\ res' = IF FindIndex(documents, id) = 0 THEN NotFound ELSE Send(200, "json")
  /\ UNCHANGED << documents, disk, inflight, unlinks, now, ghost, created >>

\* GET /api/documents/:id/download
DownloadDocument(id) ==
  /\ res' = LET i == FindIndex(documents, id) IN
            IF i = 0 THEN NotFound
            ELSE IF documents[i].fileName \in disk THEN Send(200, "file")
            ELSE Send(500, "Could not download the file.")
  /\ UNCHANGED << documents, disk, inflight, unlinks, now, ghost, created >>

\* DELETE /api/documents/:id
DeleteDocument(id) ==
  LET documentIndex == FindIndex(documents, id) IN
  IF documentIndex = 0
  THEN /\ res' = NotFound
       /\ UNCHANGED << documents, disk, inflight, unlinks, now, ghost, created >>
  ELSE /\ unlinks' = unlinks (+) SetToBag({documents[documentIndex].fileName})
       /\ documents' = Splice(documents, documentIndex)
       /\ ghost' = Splice(ghost, documentIndex)
       /\ res' = Send(204, "")
       /\ UNCHANGED << disk, inflight, now, created >>

\* The completion of one fs.unlink: the file is removed, or the call fails
\* (the file is absent, or the file system refuses) and the error is logged.
UnlinkDone(name, ok) ==
  /\ BagIn(name, unlinks)
  /\ unlinks' = unlinks (-) SetToBag({name})
  /\ disk' = IF ok /\ name \in disk THEN disk \ {name} ELSE disk
  /\ UNCHANGED << documents, inflight, now, res, ghost, created >>

\* PUT /api/documents/:id
PutDocument(id, body) ==
  LET documentIndex == FindIndex(documents, id) IN
  IF documentIndex = 0
  THEN /\ res' = NotFound
       /\ UNCHANGED << documents, disk, inflight, unlinks, now, ghost, created >>
  ELSE /\ SumPuts(ghost) < MaxPuts
       /\ documents' = [documents EXCEPT ![documentIndex] =
                          UpdatedDocument(documents[documentIndex], body, now)]
       /\ ghost' = [ghost EXCEPT ![documentIndex].puts = @ + 1]
       /\ res' = Send(200, "json")
       /\ UNCHANGED << disk, inflight, unlinks, now, created >>

\* Mutant of PatchStatus: the document is looked up before the status is
\* validated.
PatchStatus_LookupFirst(id, status) ==
  LET documentIndex == FindIndex(documents, id) IN
  IF documentIndex = 0
  THEN /\ res' = NotFound
       /\ UNCHANGED << documents, disk, inflight, unlinks, now, ghost, created >>
  ELSE IF ~ValidStatus(status)
       THEN /\ res' = Send(400, "Invalid status.")
            /\ UNCHANGED << documents, disk, inflight, unlinks, now, ghost, created >>
       ELSE /\ documents' = [documents EXCEPT ![documentIndex] =
                               WithStatus(documents[documentIndex], status)]
            /\ res' = Send(200, "json")
            /\ UNCHANGED << disk, inflight, unlinks, now, ghost, created >>

\* PATCH /api/documents/:id/status
PatchStatus(id, status) ==
  IF ~ValidStatus(status)
  THEN /\ res' = Send(400, "Invalid status.")
       /\ UNCHANGED << documents, disk, inflight, unlinks, now, ghost, created >>
  ELSE LET documentIndex == FindIndex(documents, id) IN
       IF documentIndex = 0
       THEN /\ res' = NotFound
            /\ UNCHANGED << documents, disk, inflight, unlinks, now, ghost, created >>
       ELSE /\ documents' = [documents EXCEPT ![documentIndex] =
                               WithStatus(documents[documentIndex], status)]
            /\ res' = Send(200, "json")
            /\ UNCHANGED << disk, inflight, unlinks, now, ghost, created >>

\* GET /api/stats
GetStats ==
  /\ res' = SendJson(200, Stats(documents))
  /\ UNCHANGED << documents, disk, inflight, unlinks, now, ghost, created >>

\* GET /api/activities
GetActivities ==
  /\ \E sorted \in SortOutcomes(AllActivities(documents)) :
       res' = SendJson(200, Slice(sorted, 5))
  /\ UNCHANGED << documents, disk, inflight, unlinks, now, ghost, created >>

Init ==
  /\ documents = << >>
  /\ disk = {}
  /\ inflight = EmptyBag
  /\ unlinks = EmptyBag
  /\ now = 0
  /\ res = Send(0, "")
  /\ ghost = << >>
  /\ created = 0

NoCriteria == [x \in {} |-> Undefined]

Next ==
  \/ Tick
  \/ \E f \in Files, body \in Bodies : UploadStart(f, body)
  \/ \E u \in BagToSet(inflight) : PostDocument(u)
  \/ PostNoFile
  \/ ListDocuments(NoCriteria)
  \/ \E id \in Ids : GetDocument(id)
  \/ \E id \in Ids : DownloadDocument(id)
  \/ \E id \in Ids : DeleteDocument(id)
  \/ \E name \in BagToSet(unlinks), ok \in BOOLEAN : UnlinkDone(name, ok)
  \/ \E id \in Ids, body \in Payloads : PutDocument(id, body)
  \/ \E id \in Ids, status \in StatusInputs : PatchStatus(id, status)
  \/ GetStats
  \/ GetActivities

Spec == Init /\ [][Next]_vars

\* The records of the collection: uploads of one file, PUT under every
\* payload, a status update, DELETE with its unlink, and the unfiltered list.
OneFile == { f \in Files : f.originalname = "a.pdf" }

NextRecords ==
  \/ Tick
  \/ \E f \in OneFile : UploadStart(f, FullBody)
  \/ \E u \in BagToSet(inflight) : PostDocument(u)
  \/ ListDocuments(NoCriteria)
  \/ \E id \in Ids : DeleteDocument(id)
  \/ \E name \in BagToSet(unlinks), ok \in BOOLEAN : UnlinkDone(name, ok)
  \/ \E id \in Ids, body \in Payloads : PutDocument(id, body)
  \/ \E id \in Ids : PatchStatus(id, "rejected")

SpecRecords == Init /\ [][NextRecords]_vars

\* The status workflow: uploads of one file, PUT under the payload that
\* carries a status, and the status update under every value of StatusInputs.
NextStatus ==
  \/ Tick
  \/ \E f \in OneFile : UploadStart(f, FullBody)
  \/ \E u \in BagToSet(inflight) : PostDocument(u)
  \/ \E id \in Ids, body \in { p \in Payloads : "status" \in DOMAIN p } :
       PutDocument(id, body)
  \/ \E id \in Ids, status \in StatusInputs : PatchStatus(id, status)

SpecStatus == Init /\ [][NextStatus]_vars

\* The creation of documents: POST with each file and without one, and DELETE
\* with its unlink.
NextCreate ==
  \/ Tick
  \/ \E f \in Files, body \in Bodies : UploadStart(f, body)
  \/ \E u \in BagToSet(inflight) : PostDocument(u)
  \/ PostNoFile
  \/ \E id \in Ids : DeleteDocument(id)
  \/ \E name \in BagToSet(unlinks), ok \in BOOLEAN : UnlinkDone(name, ok)

SpecCreate == Init /\ [][NextCreate]_vars

\* The query engine: uploads with the bodies of QueryBodies, status updates,
\* and lists under every query of Queries.
Criteria ==
  { [q |-> << "B" >>], [q |-> << "y" >>], [q |-> << "z" >>], [q |-> << >>],
    [category |-> "finance"], [category |-> "legal"], [category |-> ""],
    [department |-> "hr"], [status |-> "pending"], [status |-> "approved"],
    [confidentiality |-> "public"],
    [dateFrom |-> 0], [dateFrom |-> 1], [dateFrom |-> NaN],
    [dateTo |-> 0], [dateTo |-> 1] }

Queries ==
  {NoCriteria} \cup Criteria
    \cup { Spread(c1, c2) : c1 \in { c \in Criteria : "q" \in DOMAIN c },
                            c2 \in { c \in Criteria : "category" \in DOMAIN c } }

NextQuery ==
  \/ Tick
  \/ \E f \in Files, body \in QueryBodies : UploadStart(f, body)
  \/ \E u \in BagToSet(inflight) : PostDocument(u)
  \/ \E id \in Ids : PatchStatus(id, "approved")
  \/ \E query \in Queries : ListDocuments(query)

SpecQuery == Init /\ [][NextQuery]_vars


\* The dashboard counters: uploads of each file, status updates, DELETE with
\* its unlink, and the stats.
NextStats ==
  \/ Tick
  \/ \E f \in Files, body \in Bodies : UploadStart(f, body)
  \/ \E u \in BagToSet(inflight) : PostDocument(u)
  \/ \E id \in Ids, status \in {"approved", "rejected"} : PatchStatus(id, status)
  \/ \E id \in Ids : DeleteDocument(id)
  \/ \E name \in BagToSet(unlinks), ok \in BOOLEAN : UnlinkDone(name, ok)
  \/ GetStats

SpecStats == Init /\ [][NextStats]_vars

\* The activity feed: uploads of one file, PUT under the payload that
\* carries a title, and the feed.
NextActivity ==
  \/ Tick
  \/ \E f \in OneFile : UploadStart(f, FullBody)
  \/ \E u \in BagToSet(inflight) : PostDocument(u)
  \/ \E id \in Ids, body \in { p \in Payloads : "id" \notin DOMAIN p } :
       PutDocument(id, body)
  \/ GetActivities

SpecActivity == Init /\ [][NextActivity]_vars

\* The routes that look a document up by id: uploads of one file, GET, PUT
\* under every payload, an approval, and DELETE with its unlink.
NextLookup ==
  \/ Tick
  \/ \E f \in OneFile : UploadStart(f, FullBody)
  \/ \E u \in BagToSet(inflight) : PostDocument(u)
  \/ \E id \in Ids : GetDocument(id)
  \/ \E id \in Ids, body \in Payloads : PutDocument(id, body)
  \/ \E id \in Ids : PatchStatus(id, "approved")
  \/ \E id \in Ids : DeleteDocument(id)
  \/ \E name \in BagToSet(unlinks), ok \in BOOLEAN : UnlinkDone(name, ok)

SpecLookup == Init /\ [][NextLookup]_vars

\* =============================================================== claims
\* The dated entries come first, their dates never increasing from the head,
\* and the undated entry of the upload is last.
NewestFirst(h) ==
  /\ Len(h) >= 1
  /\ "date" \notin DOMAIN h[Len(h)]
  /\ \A k \in 1..(Len(h) - 1) : "date" \in DOMAIN h[k]
  /\ \A k \in 1..(Len(h) - 2) : h[k].date >= h[k + 1].date

\* C1: a document to which N PUTs were applied, whatever their payloads and
\* whatever else happened in between, has version 1 + N and a history of
\* 1 + N entries, newest first.
C1_VersionCountsPuts ==
  /\ Len(ghost) = Len(documents)
  /\ \A i \in 1..Len(documents) :
       /\ documents[i].version = 1 + ghost[i].puts
       /\ Len(documents[i].history) = 1 + ghost[i].puts
       /\ NewestFirst(documents[i].history)

\* Two PUTs, one of them carrying version and history, and a status update
\* were applied to a document while another document is in the repository.
C1_Witness ==
  \E i \in 1..Len(documents) :
    /\ Len(documents) = 2
    /\ ghost[i].puts = 2
    /\ documents[i].originalName = "x.bin"
    /\ documents[i].status = "rejected"

\* C2: no two documents of the repository have the same id.
C2_OneDocumentPerId ==
  \A i, j \in 1..Len(documents) : documents[i].id = documents[j].id => i = j

\* C3: a successful PUT leaves the id, the file attributes and the upload
\* timestamp of every document as they were.
C3_PutKeepsImmutableFields ==
  [][ \A id \in Ids, body \in Payloads :
        (PutDocument(id, body) /\ res'.status = 200) =>
          /\ Len(documents') = Len(documents)
          /\ \A i \in 1..Len(documents) :
               /\ documents'[i].id = documents[i].id
               /\ documents'[i].fileName = documents[i].fileName
               /\ documents'[i].originalName = documents[i].originalName
               /\ documents'[i].fileSize = documents[i].fileSize
               /\ documents'[i].fileType = documents[i].fileType
               /\ documents'[i].uploadDate = documents[i].uploadDate ]_vars

\* C4: every document's status is pending, approved or rejected.
C4_StatusInEnum ==
  \A i \in 1..Len(documents) :
    documents[i].status \in {"pending", "approved", "rejected"}

\* C5: a status update whose value is not approved or rejected answers 400
\* and changes nothing, whether or not the id is in the repository.
C5_InvalidStatusRejected ==
  [][ \A id \in Ids, status \in StatusInputs :
        (status \notin {"approved", "rejected"} /\ PatchStatus(id, status)) =>
          /\ res' = Send(400, "Invalid status.")
          /\ UNCHANGED << documents, disk, inflight, unlinks, ghost >> ]_vars

\* An invalid status update was answered while a document is in the repository.
C5_Witness ==
  /\ res = Send(400, "Invalid status.")
  /\ Len(documents) >= 1

\* C6: a successful status update changes the status of the document it
\* finds and nothing else: not its version, not its history, no other
\* document, no file.
C6_SetStatusFrame ==
  [][ \A id \in Ids, status \in StatusInputs :
        (PatchStatus(id, status) /\ res'.status = 200) =>
          /\ \E i \in 1..Len(documents) :
               /\ documents[i].id = id
               /\ documents' = [documents EXCEPT ![i].status = status]
          /\ UNCHANGED << disk, inflight, unlinks, ghost >> ]_vars

\* A document at version 2 was approved while another is in the repository.
C6_Witness ==
  \E i \in 1..Len(documents) :
    /\ Len(documents) = 2
    /\ documents[i].status = "approved"
    /\ documents[i].version = 2

\* C7: right after a successful DELETE of an id, GET of that id is NotFound.
C7_DeletedIdNotFound ==
  [][ \A id \in Ids :
        (DeleteDocument(id) /\ res'.status = 204) =>
          FindIndex(documents', id) = 0 ]_vars

Range(l) == { l[i] : i \in 1..Len(l) }
InBoth(docs, l1, l2) ==
  SelectSeq(docs, LAMBDA d : d \in Range(l1) /\ d \in Range(l2))

\* C10: for any two criteria on different parameters, the list under both
\* is the documents that are in the list under each, in insertion order.
C10_TwoCriteriaIntersect ==
  \A c1, c2 \in Criteria :
    (DOMAIN c1 # DOMAIN c2) =>
      LET r == FilterDocuments(documents, Spread(c1, c2))
          r1 == FilterDocuments(documents, c1)
          r2 == FilterDocuments(documents, c2)
      IN /\ r.status = 200 /\ r1.status = 200 /\ r2.status = 200
         /\ r.body = InBoth(documents, r1.body, r2.body)

\* The same, where no list ends in the TypeError of the q filter; the list
\* under both criteria ends in it exactly when one of the two lists does.
C10_IntersectUnlessThrown ==
  \A c1, c2 \in Criteria :
    (DOMAIN c1 # DOMAIN c2) =>
      LET r == FilterDocuments(documents, Spread(c1, c2))
          r1 == FilterDocuments(documents, c1)
          r2 == FilterDocuments(documents, c2)
      IN IF r1.status = 200 /\ r2.status = 200
         THEN r.status = 200 /\ r.body = InBoth(documents, r1.body, r2.body)
         ELSE r.status = 500

\* C8: a POST with a file pushes one document at version 1, pending, with
\* the single history entry "Initial upload", and answers 201; a POST with
\* no file answers 400 and pushes nothing.
C8_CreateYieldsInitial ==
  [][ /\ \A u \in BagToSet(inflight) :
           PostDocument(u) =>
             /\ Len(documents') = Len(documents) + 1
             /\ SubSeq(documents', 1, Len(documents)) = documents
             /\ LET d == documents'[Len(documents')] IN
                  /\ d.version = 1
                  /\ d.status = "pending"
                  /\ Len(d.history) = 1
                  /\ d.history[1].changes = "Initial upload"
             /\ res'.status = 201
      /\ PostNoFile =>
           /\ res' = Send(400, "No file uploaded.")
           /\ documents' = documents ]_vars

\* A second upload was answered 201 and its document is the last one.
C8_Witness ==
  /\ res = Send(201, "json")
  /\ Len(documents) = 2
  /\ documents[2].version = 1

\* C11: the stats carry, whenever they are asked for, the number of
\* documents in the repository as totalDocuments and the number of those
\* whose status is pending as pendingApprovals.
C11_StatsCountDocuments ==
  [][ GetStats =>
        /\ res'.status = 200
        /\ res'.json.totalDocuments = Len(documents)
        /\ res'.json.pendingApprovals =
             Cardinality({ i \in 1..Len(documents) : documents[i].status = "pending" })
    ]_vars

\* The stats were sent after two uploads, a rejection and the DELETE of the
\* other document: one document, none pending.
C11_Witness ==
  /\ "json" \in DOMAIN res
  /\ res.json = Stats(documents)
  /\ created = 2 /\ Len(documents) = 1
  /\ documents[1].status = "rejected"
  /\ res.json.totalDocuments = 1 /\ res.json.pendingApprovals = 0

\* The bytes that a storageUsed of the stats stands for.
BytesOf(storageUsed) == (storageUsed[1] * 1024 * 1024) \div 100

\* C12: the storage figure of the stats is the exact sum, in bytes, of the
\* sizes of the documents in the repository.
C12_StorageIsExactSum ==
  [][ GetStats => BytesOf(res'.json.storageUsed) = SumFileSize(documents) ]_vars

\* The time of an entry of the feed: its date, and for the entry of an
\* upload the time of the upload, which the id of its document carries.
EntryTime(e) == IF "date" \in DOMAIN e THEN e.date ELSE e.documentId[2]

\* C13: the feed is the first five of the history entries of all documents
\* put in descending order of their times, the entries of uploads included.
C13_ActivitiesNewestFirst ==
  [][ GetActivities =>
        \E p \in Orderings(AllActivities(documents)) :
          /\ res'.json = Slice(p, 5)
          /\ \A k, l \in 1..Len(p) :
               k < l => EntryTime(p[k]) >= EntryTime(p[l]) ]_vars

\* C14: GET, PUT, a status update with a valid status and DELETE of an id
\* that no document of the repository has answer 404 and change neither the
\* repository nor the uploads directory, and issue no unlink.
C14_UnknownIdNotFound ==
  [][ \A id \in Ids :
        ( /\ \A i \in 1..Len(documents) : documents[i].id # id
          /\ \/ GetDocument(id)
             \/ \E body \in Payloads : PutDocument(id, body)
             \/ \E status \in {"approved", "rejected"} : PatchStatus(id, status)
             \/ DeleteDocument(id) )
        => /\ res'.status = 404
           /\ UNCHANGED << documents, disk, inflight, unlinks, ghost >> ]_vars

\* A request was answered 404 while a document is in the repository and an
\* unlink of an earlier DELETE is still to complete.
C14_Witness ==
  /\ res = Send(404, "Document not found.")
  /\ Len(documents) >= 1
  /\ BagCardinality(unlinks) >= 1

\* C15: every document has a history of at least one entry whose oldest
\* entry is the "Initial upload" entry, and a step that keeps a document
\* leaves its history as it was or puts exactly one entry in front of it,
\* whatever the payload of a PUT carries.
C15_HistoryAppendOnly ==
  [][ /\ \A j \in 1..Len(documents') :
           LET h == documents'[j].history IN
             Len(h) >= 1 /\ h[Len(h)].changes = "Initial upload"
      /\ \A i \in 1..Len(documents), j \in 1..Len(documents') :
           ghost[i].ord = ghost'[j].ord =>
             \/ documents'[j].history = documents[i].history
             \/ /\ Len(documents'[j].history) = Len(documents[i].history) + 1
                /\ Tail(documents'[j].history) = documents[i].history ]_vars

\* A document got two PUTs, one with a payload that carries an empty
\* history, and the other document was deleted.
C15_Witness ==
  /\ created = 2 /\ Len(documents) = 1
  /\ Len(documents[1].history) = 3
  /\ documents[1].originalName = "x.bin"

\* C19: for every document at a version v above 1, the history entries
\* carry, from the newest on, the versions v, v - 1, ..., 2, and the last
\* entry, that of the upload, carries none.
C19_HistoryVersionsDescend ==
  \A i \in 1..Len(documents) :
    LET h == documents[i].history
        v == documents[i].version
    IN v > 1 =>
         /\ Len(h) = v
         /\ \A k \in 1..(v - 1) :
              "version" \in DOMAIN h[k] /\ h[k].version = v - k + 1
         /\ "version" \notin DOMAIN h[v]

\* A document is at version 3 after a PUT whose payload carries version 7,
\* next to a document that was never updated.
C19_Witness ==
  /\ Len(documents) = 2
  /\ documents[1].version = 3
  /\ documents[1].fileSize = 5
  /\ documents[2].version = 1

\* C16: a status update checks the status before it looks the document up:
\* a value that is not approved or rejected is answered 400 even when no
\* document has the id, and 404 is answered only to a valid value.
C16_StatusCheckedBeforeLookup ==
  [][ \A id \in Ids, status \in StatusInputs :
        PatchStatus(id, status) =>
          /\ status \notin {"approved", "rejected"} => res'.status = 400
          /\ res'.status = 404 =>
               /\ status \in {"approved", "rejected"}
               /\ \A i \in 1..Len(documents) : documents[i].id # id ]_vars

\* An invalid status was answered 400 while the repository is empty, so
\* for an id that no document has.
C16_Witness ==
  /\ res = Send(400, "Invalid status.")
  /\ documents = << >>

\* C20: a status update never makes a document pending: the document it
\* changes, and every document that was approved or rejected before it, is
\* approved or rejected after it; and the document an id finds can always
\* be taken from approved to rejected and from rejected to approved.
C20_NeverBackToPending ==
  [][ /\ \A id \in Ids, status \in StatusInputs :
           PatchStatus(id, status) =>
             /\ Len(documents') = Len(documents)
             /\ \A i \in 1..Len(documents) :
                  ( \/ documents[i].status \in {"approved", "rejected"}
                    \/ documents'[i] # documents[i] )
                  => documents'[i].status \in {"approved", "rejected"}
      /\ \A i \in 1..Len(documents) :
           i = FindIndex(documents, documents[i].id) =>
             /\ documents[i].status = "approved" =>
                  ENABLED ( /\ PatchStatus(documents[i].id, "rejected")
                            /\ documents'[i].status = "rejected" )
             /\ documents[i].status = "rejected" =>
                  ENABLED ( /\ PatchStatus(documents[i].id, "approved")
                            /\ documents'[i].status = "approved" ) ]_vars

\* Two documents went through status updates: one is approved, the other
\* rejected, and the last update was answered 200.
C20_Witness ==
  /\ Len(documents) = 2
  /\ documents[1].id # documents[2].id
  /\ documents[1].status = "rejected"
  /\ documents[2].status = "approved"
  /\ res = Send(200, "json")

\* C17: no document of the repository has a stored name whose file multer
\* is still writing.
C17_NoRecordBeforeBlobWritten ==
  \A i \in 1..Len(documents), u \in BagToSet(inflight) :
    u.file.filename # documents[i].fileName

\* C18: no two documents of the repository have the same stored name, and
\* the file of every document is in the uploads directory.
C18_StoredNamesDistinct ==
  /\ \A i, j \in 1..Len(documents) :
       documents[i].fileName = documents[j].fileName => i = j
  /\ \A i \in 1..Len(documents) : documents[i].fileName \in disk

=============================================================================
